---- MODULE Spec2Model ----
(***************************************************************************)
(* Autopart (cross-associations) graph partitioning, algorithms/autopart.py *)
(*                                                                         *)
(* The object's fields are the variables.  Costs are real numbers in the   *)
(* source (sums of integer multiples of base 2 logarithms of rationals);   *)
(* here they are fixed-point integers, Scale units to the bit.  A density  *)
(* is kept as the exact fraction <<numerator, denominator>>.               *)
(***************************************************************************)
EXTENDS Integers, Sequences, FiniteSets, TLC

\* Largest number of nodes of an input graph.
MaxNodes == 3

\* Fixed-point units per bit of cost.
Scale == 1000000

\* epsilon = 0.0001
epsilon == Scale \div 10000

\* log(m, 2) for the integers 1..64, in fixed point.  The entry of a prime is
\* the rounded logarithm; the entry of a composite is the sum of the entries of
\* its prime factors, so that equal products have equal logarithms.
Log2Tab ==
 << 0, 1000000, 1584963, 2000000, 2321928, 2584963, 2807355, 3000000,
    3169926, 3321928, 3459432, 3584963, 3700440, 3807355, 3906891, 4000000,
    4087463, 4169926, 4247928, 4321928, 4392318, 4459432, 4523562, 4584963,
    4643856, 4700440, 4754889, 4807355, 4857981, 4906891, 4954196, 5000000,
    5044395, 5087463, 5129283, 5169926, 5209453, 5247928, 5285403, 5321928,
    5357552, 5392318, 5426265, 5459432, 5491854, 5523562, 5554589, 5584963,
    5614710, 5643856, 5672426, 5700440, 5727920, 5754889, 5781360, 5807355,
    5832891, 5857981, 5882643, 5906891, 5930737, 5954196, 5977281, 6000000 >>

\* log2 of the fraction p = <<num, den>>, den > 0; math.log raises ValueError
\* when its argument is not positive.
log2_raises(p) == p[1] <= 0

log2(p) == Log2Tab[p[1]] - Log2Tab[p[2]]

\* ceil(log2(x)) for an integer x >= 1.
RECURSIVE ceil_log2_from(_, _, _)
ceil_log2_from(x, c, pow) ==
  IF pow >= x THEN c ELSE ceil_log2_from(x, c + 1, 2 * pow)

ceil_log2(x) == ceil_log2_from(x, 0, 1)

\* log_star(k) for k = 1..8: the sum of the iterates log2(k), log2(log2(k)),
\* ... that exceed epsilon, in fixed point.
LogStarTab ==
  << 0, 1000000, 2249411, 3000000, 3818592, 4409433, 4871115, 5249411 >>

log_star(x) == LogStarTab[x]

\* 1 - p for a fraction p.
OneMinus(p) == << p[2] - p[1], p[2] >>

\* a < b for fractions with positive denominators.
FracLess(a, b) == a[1] * b[2] < b[1] * a[2]

\* The sum of f[x] over x in S.
RECURSIVE SumSet(_, _)
SumSet(S, f) ==
  IF S = {} THEN 0
  ELSE LET x == CHOOSE y \in S : TRUE
       IN  f[x] + SumSet(S \ {x}, f)

\* The lists that enumerate the set S once each: the orders in which
\* iterating a Python set may yield its members.
Orders(S) ==
  { o \in [1..Cardinality(S) -> S] : \A a \in S : \E i \in DOMAIN o : o[i] = a }

VARIABLES
  graph,            \* self.graph: order |-> node count, adj |-> adjacency by node
  adj_matrix,       \* self.adj_matrix, by row and column number
  k,                \* self.k
  map_g_n,          \* self.map_g_n
  map_n_g,          \* self.map_n_g
  map_n_r,          \* self.map_n_r
  w,                \* self.w
  P,                \* self.P, fractions
  pc,               \* position of the caller in __init__/_run/_inner_loop/outlier_score
  prev_total_cost,  \* _run's prev_total_cost
  group_r,          \* _run's group_r
  todo,             \* the nodes the seed split's for loop has yet to visit
  outlier           \* outlier_score's arguments and locals while it runs

vars == << graph, adj_matrix, k, map_g_n, map_n_g, map_n_r, w, P, pc,
           prev_total_cost, group_r, todo, outlier >>

\* The object, as the methods see it.
Self ==
  [ order |-> graph.order, adj_matrix |-> adj_matrix, k |-> k,
    map_g_n |-> map_g_n, map_n_g |-> map_n_g, map_n_r |-> map_n_r,
    w |-> w, P |-> P ]

nodes(s) == 0 .. (s.order - 1)

groups(s) == 0 .. (s.k - 1)

group_size(s, g) == Cardinality(s.map_g_n[g])

group_start_idx(s, g) ==
  SumSet(0 .. (g - 1), [h \in 0 .. (g - 1) |-> group_size(s, h)])

block_size(s, i, j) == group_size(s, i) * group_size(s, j)

block_weight(s, i, j) == s.w[i][j]

block_density(s, i, j) == s.P[i][j]

cell(s, row, col) == s.adj_matrix[row][col]

\* The row (column) numbers of group g: range(from, to).
group_range(s, g) ==
  LET from == group_start_idx(s, g)
  IN  from .. (from + group_size(s, g) - 1)

row_weight(s, row, g) ==
  LET cols == group_range(s, g)
  IN  SumSet(cols, [c \in cols |-> s.adj_matrix[row][c]])

col_weight(s, col, g) ==
  LET rows == group_range(s, g)
  IN  SumSet(rows, [r \in rows |-> s.adj_matrix[r][col]])

_block_weight(s, i, j) ==
  LET rows == group_range(s, i)
      cols == group_range(s, j)
  IN  SumSet(rows, [r \in rows |-> SumSet(cols, [c \in cols |-> s.adj_matrix[r][c]])])

\* (w + 0.5) / (n + 1)
_block_density(s, i, j) ==
  << 2 * block_weight(s, i, j) + 1, 2 * block_size(s, i, j) + 2 >>

_recalculate_block_properties(s) ==
  LET s1 == [s EXCEPT !.w = [i \in groups(s) |-> [j \in groups(s) |->
                               _block_weight(s, i, j)]]]
  IN  [s1 EXCEPT !.P = [i \in groups(s) |-> [j \in groups(s) |->
                               _block_density(s1, i, j)]]]

\* -w * log2(P) - (n - w) * log2(1 - P); ValueError when P is not inside (0, 1).
block_code_cost_raises(s, i, j) ==
  \/ log2_raises(block_density(s, i, j))
  \/ log2_raises(OneMinus(block_density(s, i, j)))

block_code_cost(s, i, j) ==
  0 - block_weight(s, i, j) * log2(block_density(s, i, j))
    - (block_size(s, i, j) - block_weight(s, i, j))
        * log2(OneMinus(block_density(s, i, j)))

code_cost_raises(s) ==
  \E i \in groups(s), j \in groups(s) : block_code_cost_raises(s, i, j)

code_cost(s) ==
  SumSet(groups(s), [i \in groups(s) |->
    SumSet(groups(s), [j \in groups(s) |-> block_code_cost(s, i, j)])])

description_cost_block_weights(s) ==
  SumSet(groups(s), [i \in groups(s) |->
    SumSet(groups(s), [j \in groups(s) |->
      Scale * ceil_log2(block_size(s, i, j) + 1)])])

\* sorted([group_size(grp) for grp in groups()], reverse=True)
RECURSIVE sorted_sizes(_, _)
sorted_sizes(s, G) ==
  IF G = {} THEN << >>
  ELSE LET g == CHOOSE h \in G : \A h2 \in G : group_size(s, h2) <= group_size(s, h)
       IN  << group_size(s, g) >> \o sorted_sizes(s, G \ {g})

\* The nested function a(group_i) of description_cost_group_sizes.
group_sizes_a(s, group_i) ==
  LET sizes == sorted_sizes(s, groups(s))
  IN  1 - s.k + group_i
        + SumSet(group_i .. (s.k - 1), [g \in group_i .. (s.k - 1) |-> sizes[g + 1]])

description_cost_group_sizes_raises(s) ==
  /\ s.k # 1
  /\ \E grp \in 0 .. (s.k - 2) : group_sizes_a(s, grp) <= 0

description_cost_group_sizes(s) ==
  IF s.k = 1 THEN 0
  ELSE SumSet(0 .. (s.k - 2), [grp \in 0 .. (s.k - 2) |->
         Scale * ceil_log2(group_sizes_a(s, grp))])

description_cost(s) ==
  log_star(s.k) + description_cost_group_sizes(s) + description_cost_block_weights(s)

total_cost_raises(s) ==
  description_cost_group_sizes_raises(s) \/ code_cost_raises(s)

total_cost(s) == description_cost(s) + code_cost(s)

\* Eq. 4: the cost of placing the row and column of node in next_group.
rearrange_cost(s, node, next_group) ==
  LET x == s.map_n_r[node]
      i == next_group
  IN  SumSet(groups(s), [j \in groups(s) |->
        LET rw == row_weight(s, x, j)
            cw == col_weight(s, x, j)
        IN  0 - ( rw * log2(block_density(s, i, j))
                  + (group_size(s, j) - rw) * log2(OneMinus(block_density(s, i, j))) )
              - ( cw * log2(block_density(s, j, i))
                  + (group_size(s, j) - cw) * log2(OneMinus(block_density(s, j, i))) )])

\* The per-node entropy of a group, as the fraction <<entropy, size>>.
group_entropy_per_node(s, group_i) ==
  IF group_size(s, group_i) = 0 THEN << 0, 1 >>
  ELSE << SumSet(groups(s), [g \in groups(s) |->
            block_code_cost(s, group_i, g) + block_code_cost(s, g, group_i)]),
          group_size(s, group_i) >>

\* The nested function P(w, n) of group_entropy_per_node_exclude.
exclude_P(wt, n) == << 2 * wt + 1, 2 * n + 2 >>

\* What one pass of group_entropy_per_node_exclude's loop computes for group j
\* before it takes the logarithms: n_rj, n_jr, w_rj, w_jr, p_rj, p_jr.
exclude_block(s, group_i, node, j) ==
  LET x    == s.map_n_r[node]
      zero == [n_rj |-> 0, n_jr |-> 0, w_rj |-> 0, w_jr |-> 0,
               p_rj |-> << 0, 1 >>, p_jr |-> << 0, 1 >>]
      mk(n, wrj, wjr) ==
              [n_rj |-> n, n_jr |-> n, w_rj |-> wrj, w_jr |-> wjr,
               p_rj |-> exclude_P(wrj, n), p_jr |-> exclude_P(wjr, n)]
  IN  IF j = group_i THEN
        IF group_size(s, group_i) > 1
        THEN LET wjj == block_weight(s, j, j) - row_weight(s, x, group_i)
                          - col_weight(s, x, group_i) + cell(s, x, x)
             IN  mk((group_size(s, j) - 1) * (group_size(s, j) - 1), wjj, wjj)
        ELSE zero
      ELSE IF j = s.k - 1 THEN
        IF group_size(s, group_i) > 1
        THEN mk((group_size(s, group_i) - 1) * (group_size(s, j) + 1),
                block_weight(s, group_i, j) - row_weight(s, x, j)
                  + col_weight(s, x, group_i),
                block_weight(s, j, group_i) - col_weight(s, x, j)
                  + row_weight(s, x, group_i))
        ELSE zero
      ELSE
        IF group_size(s, group_i) > 1 /\ group_size(s, j) > 0
        THEN mk((group_size(s, group_i) - 1) * group_size(s, j),
                block_weight(s, group_i, j) - row_weight(s, x, j),
                block_weight(s, j, group_i) - col_weight(s, x, j))
        ELSE zero

\* Whether a logarithm of the two entropy lines of the loop raises for group j.
exclude_block_raises(s, group_i, node, j) ==
  LET b == exclude_block(s, group_i, node, j)
  IN  \/ log2_raises(b.p_rj) \/ log2_raises(OneMinus(b.p_rj))
      \/ log2_raises(b.p_jr) \/ log2_raises(OneMinus(b.p_jr))

group_entropy_per_node_exclude_raises(s, group_i, node) ==
  /\ group_size(s, group_i) > 1
  /\ \E j \in groups(s) : exclude_block_raises(s, group_i, node, j)

\* The predicted per-node entropy, as the fraction <<entropy, size - 1>>.
group_entropy_per_node_exclude(s, group_i, node) ==
  IF group_size(s, group_i) = 1 \/ group_size(s, group_i) = 0 THEN << 0, 1 >>
  ELSE << SumSet(groups(s), [j \in groups(s) |->
            LET b == exclude_block(s, group_i, node, j)
            IN  0 - (b.w_rj * log2(b.p_rj) + (b.n_rj - b.w_rj) * log2(OneMinus(b.p_rj)))
                  - (b.w_jr * log2(b.p_jr) + (b.n_jr - b.w_jr) * log2(OneMinus(b.p_jr)))]),
          group_size(s, group_i) - 1 >>

\* max(groups(), key): the first group whose key no other exceeds.
max_entropy_group(s) ==
  LET key == [g \in groups(s) |-> group_entropy_per_node(s, g)]
  IN  CHOOSE g \in groups(s) :
        /\ \A h \in groups(s) : ~FracLess(key[g], key[h])
        /\ \A h \in 0 .. (g - 1) : FracLess(key[h], key[g])

\* min(groups(), key): the first group of the lowest rearrange cost.
min_rearrange_group(s, node) ==
  LET key == [g \in groups(s) |-> rearrange_cost(s, node, g)]
  IN  CHOOSE g \in groups(s) :
        /\ \A h \in groups(s) : key[g] <= key[h]
        /\ \A h \in 0 .. (g - 1) : key[h] > key[g]

\* [node for group in map_g_n for node in map_g_n[group]]: the groups in key
\* order g, g + 1, ..., each set in one of its iteration orders.
RECURSIVE order_nodes(_, _)
order_nodes(m_g_n, g) ==
  IF g \notin DOMAIN m_g_n THEN { << >> }
  ELSE { a \o b : a \in Orders(m_g_n[g]), b \in order_nodes(m_g_n, g + 1) }

\* 1. switch rows: the loop from index idx on, with its temp and used.
RECURSIVE switch_rows(_, _, _, _, _)
switch_rows(order_row, idx, adj, temp, used) ==
  IF idx >= Len(order_row) THEN [adj |-> adj, used |-> used]
  ELSE LET row_num == order_row[idx + 1]
       IN  IF idx = row_num
           THEN switch_rows(order_row, idx + 1, adj, temp, used \cup {row_num})
           ELSE LET temp1 == IF idx \notin used
                             THEN [t \in DOMAIN temp \cup {idx} |->
                                     IF t = idx THEN adj[idx] ELSE temp[t]]
                             ELSE temp
                    adj1  == [adj EXCEPT ![idx] =
                                IF row_num \in DOMAIN temp1 THEN temp1[row_num]
                                ELSE adj[row_num]]
                IN  switch_rows(order_row, idx + 1, adj1, temp1, used \cup {row_num})

\* 2. switch columns.
RECURSIVE switch_columns(_, _, _, _, _)
switch_columns(order_row, idx, adj, temp, used) ==
  IF idx >= Len(order_row) THEN [adj |-> adj, used |-> used]
  ELSE LET col_num == order_row[idx + 1]
           column(c) == [r \in DOMAIN adj |-> adj[r][c]]
       IN  IF idx = col_num
           THEN switch_columns(order_row, idx + 1, adj, temp, used \cup {col_num})
           ELSE LET temp1 == IF idx \notin used
                             THEN [t \in DOMAIN temp \cup {idx} |->
                                     IF t = idx THEN column(idx) ELSE temp[t]]
                             ELSE temp
                    col   == IF col_num \in DOMAIN temp1 THEN temp1[col_num]
                             ELSE column(col_num)
                    adj1  == [r \in DOMAIN adj |-> [adj[r] EXCEPT ![idx] = col[r]]]
                IN  switch_columns(order_row, idx + 1, adj1, temp1, used \cup {col_num})

\* _rearrange_matrix_and_mappings without its column pass.
_rearrange_rows_only(s, m_g_n, m_n_g, order_node) ==
  LET order_row == [i \in DOMAIN order_node |-> s.map_n_r[order_node[i]]]
      rows == switch_rows(order_row, 0, s.adj_matrix, << >>, {})
  IN  IF Cardinality(DOMAIN m_n_g)
           # SumSet(DOMAIN m_g_n, [g \in DOMAIN m_g_n |-> Cardinality(m_g_n[g])])
      THEN [s |-> s, raised |-> TRUE]
      ELSE IF Cardinality(rows.used) # s.order
      THEN [s |-> [s EXCEPT !.adj_matrix = rows.adj], raised |-> TRUE]
      ELSE [s |-> _recalculate_block_properties(
                    [s EXCEPT !.adj_matrix = rows.adj,
                              !.map_g_n = m_g_n,
                              !.map_n_g = m_n_g,
                              !.map_n_r = [nd \in {order_node[i] : i \in DOMAIN order_node} |->
                                 (CHOOSE i \in DOMAIN order_node : order_node[i] = nd) - 1]]),
            raised |-> FALSE]

\* _rearrange_matrix_and_mappings(map_g_n, map_n_g), order_node being the order
\* in which the sets were iterated.  s is the object as the call leaves it and
\* raised tells whether one of its assertions failed.
_rearrange_matrix_and_mappings(s, m_g_n, m_n_g, order_node) ==
  LET order_row == [i \in DOMAIN order_node |-> s.map_n_r[order_node[i]]]
      rows == switch_rows(order_row, 0, s.adj_matrix, << >>, {})
      cols == switch_columns(order_row, 0, rows.adj, << >>, {})
  IN  IF Cardinality(DOMAIN m_n_g)
           # SumSet(DOMAIN m_g_n, [g \in DOMAIN m_g_n |-> Cardinality(m_g_n[g])])
      THEN [s |-> s, raised |-> TRUE]
      ELSE IF Cardinality(rows.used) # s.order
      THEN [s |-> [s EXCEPT !.adj_matrix = rows.adj], raised |-> TRUE]
      ELSE IF Cardinality(cols.used) # s.order
      THEN [s |-> [s EXCEPT !.adj_matrix = cols.adj], raised |-> TRUE]
      ELSE [s |-> _recalculate_block_properties(
                    [s EXCEPT !.adj_matrix = cols.adj,
                              !.map_g_n = m_g_n,
                              !.map_n_g = m_n_g,
                              !.map_n_r = [nd \in {order_node[i] : i \in DOMAIN order_node} |->
                                 (CHOOSE i \in DOMAIN order_node :
                                    /\ order_node[i] = nd
                                    /\ \A i2 \in DOMAIN order_node :
                                         order_node[i2] = nd => i2 <= i) - 1]]),
            raised |-> FALSE]

\* _add_new_group without its call of _recalculate_block_properties.
_add_new_group_stale(s) ==
  [s EXCEPT !.map_g_n = [g \in 0 .. s.k |-> IF g = s.k THEN {} ELSE s.map_g_n[g]],
            !.k = s.k + 1]

_add_new_group(s) ==
  _recalculate_block_properties(
    [s EXCEPT !.map_g_n = [g \in 0 .. s.k |-> IF g = s.k THEN {} ELSE s.map_g_n[g]],
              !.k = s.k + 1])

\* The three assignments that open _move_node_to_new_group.
move_mappings(s, node) ==
  [s EXCEPT !.map_g_n = [g \in DOMAIN s.map_g_n |->
                           IF g = s.k - 1
                           THEN (s.map_g_n[g] \ (IF g = s.map_n_g[node] THEN {node} ELSE {}))
                                  \cup {node}
                           ELSE IF g = s.map_n_g[node] THEN s.map_g_n[g] \ {node}
                           ELSE s.map_g_n[g]],
            !.map_n_g = [s.map_n_g EXCEPT ![node] = s.k - 1]]

_move_node_to_new_group(s, node, order_node) ==
  LET s1 == move_mappings(s, node)
      r  == _rearrange_matrix_and_mappings(s1, s1.map_g_n, s1.map_n_g, order_node)
  IN  IF r.raised THEN r
      ELSE [s |-> _recalculate_block_properties(r.s), raised |-> FALSE]

\* STEP 1 of _inner_loop: every node goes to the group of lowest rearrange cost.
inner_map_n_g(s) == [nd \in nodes(s) |-> min_rearrange_group(s, nd)]

\* STEP 1 adding each node to the set of another group than map_n_g records.
inner_map_g_n_other_group(s) ==
  LET m_n_g == inner_map_n_g(s)
  IN  [g \in groups(s) |-> { nd \in nodes(s) : (m_n_g[nd] + 1) % s.k = g }]

inner_map_g_n(s) ==
  LET m_n_g == inner_map_n_g(s)
  IN  [g \in groups(s) |-> { nd \in nodes(s) : m_n_g[nd] = g }]

\* The object's fields become those of s.  (Where an action names a value it
\* uses more than once, it draws it from a one-element set.)
Store(s) ==
  /\ adj_matrix' = s.adj_matrix
  /\ k' = s.k
  /\ map_g_n' = s.map_g_n
  /\ map_n_g' = s.map_n_g
  /\ map_n_r' = s.map_n_r
  /\ w' = s.w
  /\ P' = s.P

NoCall == [i |-> 0, j |-> 0, w_orig |-> 0, P_orig |-> << 0, 1 >>, cost |-> 0, score |-> 0]

\* __init__ up to the call of _run, for every graph of at most MaxNodes nodes:
\* directed or not, with or without self-loops.
Init ==
  /\ \E n \in 1 .. MaxNodes :
       \E a \in [0 .. (n - 1) -> [0 .. (n - 1) -> {0, 1}]] :
         graph = [order |-> n, adj |-> a]
  /\ adj_matrix = graph.adj
  /\ k = 1
  /\ map_g_n = [g \in {0} |-> 0 .. (graph.order - 1)]
  /\ map_n_g = [nd \in 0 .. (graph.order - 1) |-> 0]
  /\ map_n_r = [nd \in 0 .. (graph.order - 1) |-> nd]
  /\ LET s == _recalculate_block_properties(
                [order |-> graph.order, adj_matrix |-> graph.adj, k |-> 1,
                 map_g_n |-> [g \in {0} |-> 0 .. (graph.order - 1)],
                 map_n_g |-> [nd \in 0 .. (graph.order - 1) |-> 0],
                 map_n_r |-> [nd \in 0 .. (graph.order - 1) |-> nd],
                 w |-> << >>, P |-> << >>])
     IN  w = s.w /\ P = s.P
  /\ pc = "outer"
  /\ prev_total_cost = 0
  /\ group_r = 0
  /\ todo = << >>
  /\ outlier = NoCall

\* _run, the head of the outer loop: prev_total_cost and group_r.
SelectSplitCandidate ==
  /\ pc = "outer"
  /\ IF total_cost_raises(Self)
     THEN pc' = "raised" /\ UNCHANGED << prev_total_cost, group_r >>
     ELSE /\ prev_total_cost' = total_cost(Self)
          /\ group_r' = max_entropy_group(Self)
          /\ pc' = "add"
  /\ UNCHANGED << graph, adj_matrix, k, map_g_n, map_n_g, map_n_r, w, P, todo, outlier >>

\* _run STEP 1, and the list the for loop of STEP 2 is to walk.
AddNewGroup ==
  /\ pc = "add"
  /\ Store(_add_new_group(Self))
  /\ todo' \in Orders(map_g_n[group_r])
  /\ pc' = "seed"
  /\ UNCHANGED << graph, prev_total_cost, group_r, outlier >>

\* _run STEP 2, one pass of the for loop.
SeedSplit ==
  /\ pc = "seed"
  /\ todo # << >>
  /\ LET node == Head(todo)
     IN  IF group_entropy_per_node_exclude_raises(Self, group_r, node)
         THEN /\ pc' = "raised"
              /\ UNCHANGED << adj_matrix, k, map_g_n, map_n_g, map_n_r, w, P, todo >>
         ELSE IF FracLess(group_entropy_per_node_exclude(Self, group_r, node),
                          group_entropy_per_node(Self, group_r))
         THEN \E o \in order_nodes(move_mappings(Self, node).map_g_n, 0) :
                \E r \in {_move_node_to_new_group(Self, node, o)} :
                  /\ Store(r.s)
                  /\ pc' = IF r.raised THEN "raised" ELSE "seed"
                  /\ todo' = Tail(todo)
         ELSE /\ todo' = Tail(todo)
              /\ UNCHANGED << adj_matrix, k, map_g_n, map_n_g, map_n_r, w, P, pc >>
  /\ UNCHANGED << graph, prev_total_cost, group_r, outlier >>

\* The for loop is over: _run STEP 3 enters _inner_loop.
SeedDone ==
  /\ pc = "seed"
  /\ todo = << >>
  /\ pc' = "inner"
  /\ UNCHANGED << graph, adj_matrix, k, map_g_n, map_n_g, map_n_r, w, P,
                  prev_total_cost, group_r, todo, outlier >>

\* One pass of _inner_loop's while loop.
InnerLoop ==
  /\ pc = "inner"
  /\ IF total_cost_raises(Self)
     THEN /\ pc' = "raised"
          /\ UNCHANGED << adj_matrix, k, map_g_n, map_n_g, map_n_r, w, P >>
     ELSE \E m_g_n \in {inner_map_g_n(Self)}, m_n_g \in {inner_map_n_g(Self)},
             prev \in {total_cost(Self)} :
            \E o \in order_nodes(m_g_n, 0) :
              \E r \in {_rearrange_matrix_and_mappings(Self, m_g_n, m_n_g, o)} :
                /\ Store(r.s)
                /\ pc' = IF r.raised \/ total_cost_raises(r.s) THEN "raised"
                         ELSE IF prev - total_cost(r.s) < epsilon THEN "check"
                         ELSE "inner"
  /\ UNCHANGED << graph, prev_total_cost, group_r, todo, outlier >>

\* _run STEP 4.
OuterCheck ==
  /\ pc = "check"
  /\ pc' = IF code_cost_raises(Self) \/ total_cost_raises(Self) THEN "raised"
           ELSE IF prev_total_cost - total_cost(Self) < epsilon THEN "done"
           ELSE "outer"
  /\ UNCHANGED << graph, adj_matrix, k, map_g_n, map_n_g, map_n_r, w, P,
                  prev_total_cost, group_r, todo, outlier >>

\* outlier_score(i, j) up to its second total_cost(): return 0 for a block of
\* weight 0, else put the what-if weight and density in the tables.
OutlierScore(i, j) ==
  /\ pc = "done"
  /\ IF w[i][j] = 0
     THEN /\ outlier' = [NoCall EXCEPT !.i = i, !.j = j]
          /\ UNCHANGED << w, P, pc >>
     ELSE IF total_cost_raises(Self)
     THEN /\ outlier' = [NoCall EXCEPT !.i = i, !.j = j]
          /\ pc' = "outlier_raised"
          /\ UNCHANGED << w, P >>
     ELSE /\ outlier' = [i |-> i, j |-> j, w_orig |-> w[i][j], P_orig |-> P[i][j],
                         cost |-> total_cost(Self), score |-> 0]
          /\ w' = [w EXCEPT ![i][j] = w[i][j] - 1]
          /\ IF block_size(Self, i, j) = 0
             THEN pc' = "outlier_raised" /\ UNCHANGED P
             ELSE /\ P' = [P EXCEPT ![i][j] = << w[i][j] - 1, block_size(Self, i, j) >>]
                  /\ pc' = "whatif"
  /\ UNCHANGED << graph, adj_matrix, k, map_g_n, map_n_g, map_n_r,
                  prev_total_cost, group_r, todo >>

\* outlier_score from its second total_cost() to the return.
OutlierScoreReturn ==
  /\ pc = "whatif"
  /\ IF total_cost_raises(Self)
     THEN pc' = "outlier_raised" /\ UNCHANGED << w, P, outlier >>
     ELSE /\ outlier' = [outlier EXCEPT !.score = outlier.cost - total_cost(Self)]
          /\ w' = [w EXCEPT ![outlier.i][outlier.j] = outlier.w_orig]
          /\ P' = [P EXCEPT ![outlier.i][outlier.j] = outlier.P_orig]
          /\ pc' = "done"
  /\ UNCHANGED << graph, adj_matrix, k, map_g_n, map_n_g, map_n_r,
                  prev_total_cost, group_r, todo >>

Next ==
  \/ SelectSplitCandidate
  \/ AddNewGroup
  \/ SeedSplit
  \/ SeedDone
  \/ InnerLoop
  \/ OuterCheck
  \/ \E i \in 0 .. (k - 1), j \in 0 .. (k - 1) : OutlierScore(i, j)
  \/ OutlierScoreReturn

Spec == Init /\ [][Next]_vars

\* _rearrange_matrix_and_mappings called on its own: the object of __init__
\* (before _run) receives _add_new_group and _rearrange_matrix_and_mappings
\* calls in any order, with any map_g_n over the groups 0..k-1.
MaxGroups == 2

\* __init__ up to the call of _run.
RearrangeInit ==
  /\ \E n \in 1 .. MaxNodes :
       \E a \in [0 .. (n - 1) -> [0 .. (n - 1) -> {0, 1}]] :
         graph = [order |-> n, adj |-> a]
  /\ adj_matrix = graph.adj
  /\ k = 1
  /\ map_g_n = [g \in {0} |-> 0 .. (graph.order - 1)]
  /\ map_n_g = [nd \in 0 .. (graph.order - 1) |-> 0]
  /\ map_n_r = [nd \in 0 .. (graph.order - 1) |-> nd]
  /\ \E s \in {_recalculate_block_properties(
                [order |-> graph.order, adj_matrix |-> graph.adj, k |-> 1,
                 map_g_n |-> [g \in {0} |-> 0 .. (graph.order - 1)],
                 map_n_g |-> [nd \in 0 .. (graph.order - 1) |-> 0],
                 map_n_r |-> [nd \in 0 .. (graph.order - 1) |-> nd],
                 w |-> << >>, P |-> << >>])} :
       w = s.w /\ P = s.P
  /\ pc = "calls"
  /\ prev_total_cost = 0
  /\ group_r = 0
  /\ todo = << >>
  /\ outlier = NoCall

\* The map_g_n arguments that hold every node in exactly one group.
Partitions(s) ==
  { m \in [groups(s) -> SUBSET nodes(s)] :
      \A nd \in nodes(s) : Cardinality({ g \in groups(s) : nd \in m[g] }) = 1 }

\* The other map_g_n arguments: a node is missing or is in two groups.
NonPartitions(s) == [groups(s) -> SUBSET nodes(s)] \ Partitions(s)

\* The map_n_g arguments that go with m: a node that some group of m holds is
\* mapped to a group that holds it.
MapsOf(s, m) ==
  { f \in [nodes(s) -> groups(s)] :
      \A nd \in nodes(s) : (\E g \in groups(s) : nd \in m[g]) => nd \in m[f[nd]] }

\* A call of _add_new_group.
CallAddNewGroup ==
  /\ pc = "calls"
  /\ k < MaxGroups
  /\ Store(_add_new_group(Self))
  /\ UNCHANGED << graph, pc, prev_total_cost, group_r, todo, outlier >>

\* A call of _rearrange_matrix_and_mappings with a partition of the nodes.
CallRearrange ==
  /\ pc = "calls"
  /\ \E m \in Partitions(Self) : \E f \in MapsOf(Self, m) :
       \E o \in order_nodes(m, 0) :
         \E r \in {_rearrange_matrix_and_mappings(Self, m, f, o)} :
           /\ Store(r.s)
           /\ pc' = IF r.raised THEN "assertion_failed" ELSE "calls"
  /\ UNCHANGED << graph, prev_total_cost, group_r, todo, outlier >>

\* A call of _rearrange_matrix_and_mappings with groups that are no partition.
CallRearrangeInvalid ==
  /\ pc = "calls"
  /\ \E m \in NonPartitions(Self) : \E f \in MapsOf(Self, m) :
       \E o \in order_nodes(m, 0) :
         \E r \in {_rearrange_matrix_and_mappings(Self, m, f, o)} :
           /\ Store(r.s)
           /\ pc' = IF r.raised THEN "rejected" ELSE "calls"
  /\ UNCHANGED << graph, prev_total_cost, group_r, todo, outlier >>

RearrangeNext ==
  \/ CallAddNewGroup
  \/ CallRearrange

RearrangeSpec == RearrangeInit /\ [][RearrangeNext]_vars

\* The same calls and, beside them, calls whose groups are no partition, on
\* the graphs of at most MaxEdges edges.
MaxEdges == 2

RejectInit ==
  /\ RearrangeInit
  /\ Cardinality({ e \in (0 .. (graph.order - 1)) \X (0 .. (graph.order - 1)) :
                     graph.adj[e[1]][e[2]] = 1 }) <= MaxEdges

RejectNext ==
  \/ CallAddNewGroup
  \/ CallRearrange
  \/ CallRearrangeInvalid

RejectSpec == RejectInit /\ [][RejectNext]_vars

----------------------------------------------------------------------------
\* The nodes, and the number of edges of the input graph from group i to group j.
Nodes == 0 .. (graph.order - 1)

EdgesBetween(i, j) ==
  Cardinality({ e \in map_g_n[i] \X map_g_n[j] : graph.adj[e[1]][e[2]] = 1 })

Edgeless == \A u \in Nodes, v \in Nodes : graph.adj[u][v] = 0

\* C1: after every rearrangement map_n_g is a total function on the nodes, the
\* sets map_g_n[0..k-1] are pairwise disjoint and cover the nodes, a node is in
\* map_g_n[g] exactly when map_n_g maps it to g, and the sizes sum to the node
\* count.
C1_PartitionInvariant ==
  /\ DOMAIN map_n_g = Nodes
  /\ DOMAIN map_g_n = 0 .. (k - 1)
  /\ \A g \in 0 .. (k - 1), h \in 0 .. (k - 1) :
       g # h => map_g_n[g] \cap map_g_n[h] = {}
  /\ UNION { map_g_n[g] : g \in 0 .. (k - 1) } = Nodes
  /\ \A nd \in Nodes, g \in 0 .. (k - 1) : nd \in map_g_n[g] <=> map_n_g[nd] = g
  /\ SumSet(0 .. (k - 1), [g \in 0 .. (k - 1) |-> Cardinality(map_g_n[g])]) = graph.order

\* An _inner_loop pass has rearranged the nodes into two groups, neither empty.
C1_Witness ==
  /\ pc = "check"
  /\ k = 2
  /\ map_g_n[0] # {}
  /\ map_g_n[1] # {}

\* C2: after every completed outer step, the last one included, total_cost() is
\* at most the prev_total_cost taken before the group was added.
C2_OuterStepNeverCostlier ==
  (pc \in {"outer", "done"} /\ k > 1) => total_cost(Self) <= prev_total_cost

\* C3: construction completes for every graph: no run stops before the loops'
\* stop conditions are met.
C3_ConstructionCompletes == pc # "raised"

\* C4: for a graph with no edges the final state has k = 1, all nodes in group 0.
C4_EdgelessStaysOneGroup ==
  (Edgeless /\ pc = "done") => (k = 1 /\ map_g_n[0] = Nodes)

\* C5: wherever a cost function reads a density, the what-if of outlier_score
\* included, 0 < P[i][j] < 1.
C5_DensityBounds ==
  pc \notin {"raised", "outlier_raised"} =>
    \A i \in 0 .. (k - 1), j \in 0 .. (k - 1) : 0 < P[i][j][1] /\ P[i][j][1] < P[i][j][2]

\* C6: after _add_new_group, _move_node_to_new_group and
\* _rearrange_matrix_and_mappings the tables w and P are k by k, w[i][j] is the
\* number of graph edges from a node of group i to a node of group j, and
\* P[i][j] = (w[i][j] + 0.5) / (|i| * |j| + 1).
C6_CacheFresh ==
  pc \notin {"whatif", "outlier_raised"} =>
    /\ DOMAIN w = 0 .. (k - 1)
    /\ DOMAIN P = 0 .. (k - 1)
    /\ \A i \in 0 .. (k - 1) :
         /\ DOMAIN w[i] = 0 .. (k - 1)
         /\ DOMAIN P[i] = 0 .. (k - 1)
         /\ \A j \in 0 .. (k - 1) :
              /\ w[i][j] = EdgesBetween(i, j)
              /\ P[i][j] = << 2 * w[i][j] + 1,
                              2 * Cardinality(map_g_n[i]) * Cardinality(map_g_n[j]) + 2 >>

\* The seed split has moved nodes into the new group and edges join the groups.
C6_Witness ==
  /\ pc = "seed"
  /\ k = 2
  /\ Cardinality(map_g_n[1]) = 2
  /\ w[0][1] = 1
  /\ w[1][0] = 2

\* C7: on every exit of outlier_score the tables w and P hold the values they
\* held before the call, and k, the mappings and the matrix are unchanged.
C7_OutlierScoreReverts ==
  [][ /\ pc = "whatif" =>
           /\ w' = [w EXCEPT ![outlier.i][outlier.j] = outlier.w_orig]
           /\ P' = [P EXCEPT ![outlier.i][outlier.j] = outlier.P_orig]
           /\ UNCHANGED << k, map_g_n, map_n_g, map_n_r, adj_matrix >>
      /\ (pc = "done" /\ pc' # "whatif") =>
           UNCHANGED << w, P, k, map_g_n, map_n_g, map_n_r, adj_matrix >> ]_vars

\* C8: at the end of an _inner_loop and in the final state every group has a
\* member.
C8_NoEmptyGroups ==
  pc \in {"check", "done"} => \A g \in 0 .. (k - 1) : map_g_n[g] # {}

\* C9: the entropy computations of the seed split take no logarithm of a number
\* that is not positive.
C9_EntropyNeverRaises ==
  (pc = "seed" /\ todo # << >>) =>
    ~group_entropy_per_node_exclude_raises(Self, group_r, Head(todo))

\* C10: in a seed split, for a node x of a group g of more than one node (g not
\* the newest group) whose prediction takes no logarithm of a non-positive
\* number, group_entropy_per_node_exclude(g, x) is the value
\* group_entropy_per_node(g) has after _move_node_to_new_group(x).
C10_EntropyPredictionConsistent ==
  pc = "seed" =>
    \A g \in 0 .. (k - 2) : \A x \in map_g_n[g] :
      (Cardinality(map_g_n[g]) > 1
         /\ ~group_entropy_per_node_exclude_raises(Self, g, x)) =>
        \A s \in {Self} :
          \A moved \in {_move_node_to_new_group(s, x,
                          CHOOSE o \in order_nodes(move_mappings(s, x).map_g_n, 0) : TRUE).s} :
            group_entropy_per_node_exclude(s, g, x) = group_entropy_per_node(moved, g)

\* C11: after any sequence of rearrangements with partitions of the nodes, no
\* assertion of _rearrange_matrix_and_mappings has failed, map_n_r is a
\* bijection from the nodes onto 0..n-1, and the cell of adj_matrix at
\* (map_n_r[u], map_n_r[v]) is the input graph's adjacency entry for (u, v).
C11_SimilarityPermutation ==
  /\ pc # "assertion_failed"
  /\ DOMAIN map_n_r = Nodes
  /\ { map_n_r[u] : u \in Nodes } = 0 .. (graph.order - 1)
  /\ \A u \in Nodes, v \in Nodes :
       adj_matrix[map_n_r[u]][map_n_r[v]] = graph.adj[u][v]

\* Three rows moved in a cycle, which changed the matrix.
C11_Witness ==
  /\ pc = "calls"
  /\ graph.order = 3
  /\ map_n_r = [nd \in Nodes |-> (nd + 1) % 3]
  /\ adj_matrix # graph.adj

\* C12: a call of _rearrange_matrix_and_mappings whose groups do not hold every
\* node exactly once fails with adj_matrix, map_g_n, map_n_g, map_n_r, w and P
\* as they were before the call.
C12_FailFastValidation ==
  [][ pc' = "rejected" =>
        UNCHANGED << adj_matrix, map_g_n, map_n_g, map_n_r, w, P >> ]_vars

====
